---- MODULE Spec2Model ----
\* Model of Table (crates/proof-of-sql/src/base/database/table.rs):
\* an IndexMap<Identifier, Column> (insertion-ordered, unique keys) plus a
\* cached num_rows, its constructors, accessors and order-sensitive equality.
EXTENDS Integers, Naturals, Sequences, FiniteSets, TLC

\* ---------------------------------------------------------------- bounds
MaxLen == 2
MaxCols == 3
MaxPairs == 3
MaxCalls == 2

\* ---------------------------------------------------------------- data
\* Identifiers and column kinds (a subset of the Column variants).
Ids == {"a", "b", "c"}
Kinds == {"BigInt", "VarChar"}
ElemOf(k) == IF k = "BigInt" THEN {1} ELSE {"x"}

SeqsUpTo(S, n) == UNION {[1..i -> S] : i \in 0..n}

\* A Column: a variant tag and the borrowed slice it holds.
Column(k, s) == [kind |-> k, vals |-> s]

\* Column::len: the length of the active variant's slice.
ColLen(c) == Len(c.vals)

GenCols == UNION {{Column(k, s) : s \in SeqsUpTo(ElemOf(k), MaxLen)} : k \in Kinds}
ScenarioCols == {Column("BigInt", <<1, 2, 3>>),
                 Column("BigInt", <<1, 2>>),
                 Column("VarChar", <<"x", "y", "z">>)}
Cols == GenCols \cup ScenarioCols

\* An IndexMap is a sequence of <<key, value>> entries with distinct keys,
\* in insertion order.
Keys(m) == [i \in 1..Len(m) |-> m[i][1]]
KeySet(m) == {m[i][1] : i \in 1..Len(m)}
PairSet(m) == {m[i] : i \in 1..Len(m)}
IsIndexMap(m) == \A i, j \in 1..Len(m) : i # j => m[i][1] # m[j][1]

Mappings == {m \in SeqsUpTo(Ids \X Cols, MaxCols) : IsIndexMap(m)}
PairSeqs == SeqsUpTo(Ids \X GenCols, MaxPairs)

IndexMapInsert_KeepOld(m, k, v) ==
    IF \E i \in 1..Len(m) : m[i][1] = k THEN m ELSE Append(m, <<k, v>>)
IndexMapInsert_MoveToEnd(m, k, v) ==
    Append(SelectSeq(m, LAMBDA e : e[1] # k), <<k, v>>)

\* IndexMap::insert: an existing key keeps its slot and gets the new value;
\* a new key is appended.
IndexMapInsert(m, k, v) ==
    IF \E i \in 1..Len(m) : m[i][1] = k
    THEN LET i == CHOOSE i \in 1..Len(m) : m[i][1] = k
         IN [m EXCEPT ![i] = <<k, v>>]
    ELSE Append(m, <<k, v>>)

\* IndexMap::from_iter: insert each pair in order.
RECURSIVE FromIterAcc(_, _)
FromIterAcc(m, p) ==
    IF p = <<>> THEN m
    ELSE FromIterAcc(IndexMapInsert(m, Head(p)[1], Head(p)[2]), Tail(p))
FromIter(p) == FromIterAcc(<<>>, p)

\* IndexMap's PartialEq: same length, and every entry of one is in the
\* other (order-insensitive).
IndexMapEq(m1, m2) ==
    /\ Len(m1) = Len(m2)
    /\ \A i \in 1..Len(m1) : \E j \in 1..Len(m2) : m2[j] = m1[i]

\* ---------------------------------------------------------------- Table
NoTable == [status |-> "none", table |-> <<>>, num_rows |-> 0]
Err == [status |-> "err", table |-> <<>>, num_rows |-> 0]

TryNew_NumRowsIsLen(table) ==
    IF table = <<>> THEN [status |-> "ok", table |-> table, num_rows |-> 0]
    ELSE IF \E i \in 1..Len(table) : ColLen(table[i][2]) # ColLen(table[1][2])
         THEN Err
         ELSE [status |-> "ok", table |-> table, num_rows |-> Len(table)]
TryNew_CheckLastOnly(table) ==
    IF table = <<>> THEN [status |-> "ok", table |-> table, num_rows |-> 0]
    ELSE IF ColLen(table[Len(table)][2]) # ColLen(table[1][2])
         THEN Err
         ELSE [status |-> "ok", table |-> table, num_rows |-> ColLen(table[1][2])]
TryNew_EmptyRejected(table) ==
    IF table = <<>> THEN Err
    ELSE IF \E i \in 1..Len(table) : ColLen(table[i][2]) # ColLen(table[1][2])
         THEN Err
         ELSE [status |-> "ok", table |-> table, num_rows |-> ColLen(table[1][2])]
TryNew_Sorted(table) ==
    IF table = <<>> THEN [status |-> "ok", table |-> table, num_rows |-> 0]
    ELSE IF \E i \in 1..Len(table) : ColLen(table[i][2]) # ColLen(table[1][2])
         THEN Err
         ELSE [status |-> "ok", table |-> SelectSeq(table, LAMBDA e : e[1] = "a")
                                    \o SelectSeq(table, LAMBDA e : e[1] = "b")
                                    \o SelectSeq(table, LAMBDA e : e[1] = "c"),
                             num_rows |-> ColLen(table[1][2])]
TryNew_NoCheck(table) ==
    IF table = <<>> THEN [status |-> "ok", table |-> table, num_rows |-> 0]
    ELSE [status |-> "ok", table |-> table, num_rows |-> ColLen(table[1][2])]

\* Table::try_new
TryNew(table) ==
    IF table = <<>> THEN [status |-> "ok", table |-> table, num_rows |-> 0]
    ELSE LET num_rows == ColLen(table[1][2])
         IN IF \E i \in 1..Len(table) : ColLen(table[i][2]) # num_rows
            THEN Err
            ELSE [status |-> "ok", table |-> table, num_rows |-> num_rows]

\* Table::try_from_iter
TryFromIter(iter) == TryNew(FromIter(iter))

NumColumns(t) == Len(t.table)
NumRows(t) == t.num_rows
IsEmpty(t) == t.table = <<>>
IntoInner(t) == t.table
InnerTable(t) == t.table
ColumnNames_Sorted(t) ==
    Keys(SelectSeq(t.table, LAMBDA e : e[1] = "a")
           \o SelectSeq(t.table, LAMBDA e : e[1] = "b")
           \o SelectSeq(t.table, LAMBDA e : e[1] = "c"))
ColumnNames(t) == Keys(t.table)

TableEq_NoOrder(s, o) == IndexMapEq(s.table, o.table)
TableEq_KeysOnly(s, o) ==
    \A i \in 1..Len(s.table) \cap 1..Len(o.table) : s.table[i][1] = o.table[i][1]
\* PartialEq for Table: IndexMap equality, and the keys zipped pairwise equal.
TableEq(s, o) ==
    /\ IndexMapEq(s.table, o.table)
    /\ \A i \in 1..Len(s.table) \cap 1..Len(o.table) : s.table[i][1] = o.table[i][1]

\* ---------------------------------------------------------------- state
VARIABLES input, via, res, names, borrowed, inner, consumed,
          t1, t2, cmp

mainVars == <<input, via, res, names, borrowed, inner, consumed>>
eqVars == <<t1, t2, cmp>>
vars == <<input, via, res, names, borrowed, inner, consumed, t1, t2, cmp>>

NoCmp == [done |-> FALSE, e12 |-> FALSE, e21 |-> FALSE, e11 |-> FALSE]

InitMain ==
    /\ input = <<>>
    /\ via = "none"
    /\ res = NoTable
    /\ names = <<>>
    /\ borrowed = <<>>
    /\ inner = <<>>
    /\ consumed = FALSE

InitEq ==
    /\ t1 = NoTable
    /\ t2 = NoTable
    /\ cmp = NoCmp

Init == InitMain /\ InitEq

TryNewAct ==
    /\ via = "none"
    /\ \E m \in Mappings :
         /\ input' = m
         /\ res' = TryNew(m)
    /\ via' = "new"
    /\ UNCHANGED <<names, borrowed, inner, consumed>>
    /\ UNCHANGED eqVars

TryFromIterAct ==
    /\ via = "none"
    /\ \E p \in PairSeqs :
         /\ input' = p
         /\ res' = TryFromIter(p)
    /\ via' = "iter"
    /\ UNCHANGED <<names, borrowed, inner, consumed>>
    /\ UNCHANGED eqVars

ColumnNamesAct ==
    /\ res.status = "ok"
    /\ ~consumed
    /\ Len(names) < MaxCalls
    /\ names' = Append(names, ColumnNames(res))
    /\ UNCHANGED <<input, via, res, borrowed, inner, consumed>>
    /\ UNCHANGED eqVars

InnerTableAct ==
    /\ res.status = "ok"
    /\ ~consumed
    /\ borrowed' = <<InnerTable(res)>>
    /\ UNCHANGED <<input, via, res, names, inner, consumed>>
    /\ UNCHANGED eqVars

IntoInnerAct ==
    /\ res.status = "ok"
    /\ ~consumed
    /\ inner' = IntoInner(res)
    /\ consumed' = TRUE
    /\ UNCHANGED <<input, via, res, names, borrowed>>
    /\ UNCHANGED eqVars

Next ==
    \/ TryNewAct
    \/ TryFromIterAct
    \/ ColumnNamesAct
    \/ InnerTableAct
    \/ IntoInnerAct

Spec == Init /\ [][Next]_vars

\* Two tables built with try_new and compared with PartialEq.
EqIds == {"a", "b"}
EqCols == {c \in GenCols : ColLen(c) <= 1}
EqMappings == {m \in SeqsUpTo(EqIds \X EqCols, MaxCols) : IsIndexMap(m)}

BuildLeft ==
    /\ t1 = NoTable
    /\ \E m \in EqMappings : t1' = TryNew(m)
    /\ UNCHANGED <<t2, cmp>>
    /\ UNCHANGED mainVars

BuildRight ==
    /\ t2 = NoTable
    /\ \E m \in EqMappings : t2' = TryNew(m)
    /\ UNCHANGED <<t1, cmp>>
    /\ UNCHANGED mainVars

Compare ==
    /\ t1.status = "ok" /\ t2.status = "ok"
    /\ ~cmp.done
    /\ cmp' = [done |-> TRUE, e12 |-> TableEq(t1, t2),
               e21 |-> TableEq(t2, t1), e11 |-> TableEq(t1, t1)]
    /\ UNCHANGED <<t1, t2>>
    /\ UNCHANGED mainVars

NextEq == BuildLeft \/ BuildRight \/ Compare

SpecEq == Init /\ [][NextEq]_vars

\* ---------------------------------------------------------------- claims
\* The mapping the table was built from: the input mapping of try_new,
\* or the IndexMap the pairs of try_from_iter collect into.
Orig == IF via = "new" THEN input ELSE FromIter(input)

AllSameLen(m) == \A i, j \in 1..Len(m) : ColLen(m[i][2]) = ColLen(m[j][2])

\* C1: a non-empty mapping whose columns all have length L builds a table
\* with num_rows = L and num_columns = the number of entries.
C1_Thm ==
    (via = "new" /\ input # <<>> /\ AllSameLen(input))
      => /\ res.status = "ok"
         /\ NumRows(res) = ColLen(input[1][2])
         /\ NumColumns(res) = Len(input)
C1_Wit ==
    /\ via = "new"
    /\ input = << <<"a", Column("BigInt", <<1, 2, 3>>)>>,
                  <<"b", Column("VarChar", <<"x", "y", "z">>)>> >>
    /\ res.status = "ok" /\ NumColumns(res) = 2 /\ NumRows(res) = 3

\* C2: a mapping with two columns of different lengths, in any positions,
\* makes try_new fail with ColumnLengthMismatch.
C2_Thm ==
    (via = "new" /\ ~AllSameLen(input)) => res = Err
C2_Wit ==
    /\ via = "new"
    /\ Len(input) = 3
    /\ ColLen(input[1][2]) = ColLen(input[2][2])
    /\ ColLen(input[2][2]) # ColLen(input[3][2])
    /\ res = Err

\* C3: the empty mapping builds a table with no rows and no columns.
C3_Thm ==
    (via = "new" /\ input = <<>>)
      => /\ res.status = "ok"
         /\ NumRows(res) = 0 /\ NumColumns(res) = 0 /\ IsEmpty(res)
C3_Wit == via = "new" /\ input = <<>> /\ res.status = "ok"

\* C5: into_inner returns the mapping try_new was given (keys, values and
\* order), and inner_table exposes that same mapping.
C5_Thm ==
    (via = "new" /\ res.status = "ok")
      => /\ (consumed => inner = input)
         /\ (borrowed # <<>> => borrowed[1] = input)
C5_Wit ==
    /\ via = "new" /\ consumed /\ borrowed # <<>> /\ Len(input) = 2

\* C6: every call of column_names yields the identifiers of the originating
\* mapping, each once, in insertion order.
C6_Thm ==
    res.status = "ok"
      => \A i \in 1..Len(names) :
           /\ names[i] = Keys(Orig)
           /\ \A x, y \in 1..Len(names[i]) : x # y => names[i][x] # names[i][y]
C6_Wit ==
    /\ Len(names) = MaxCalls /\ Len(input) >= 2 /\ consumed /\ borrowed # <<>>

\* Indices of the input pairs carrying key k; the last one wins.
IdxOf(p, k) == {i \in 1..Len(p) : p[i][1] = k}
InKeys(p) == {p[i][1] : i \in 1..Len(p)}
LastCol(p, k) == p[CHOOSE i \in IdxOf(p, k) : \A j \in IdxOf(p, k) : j <= i][2]
FirstIdx(p, k) == CHOOSE i \in IdxOf(p, k) : \A j \in IdxOf(p, k) : i <= j

\* C7: try_from_iter keeps the last column of each duplicated identifier, and
\* success and num_rows are decided on those kept columns only.
C7_Thm ==
    via = "iter" =>
      LET ok == \A k, l \in InKeys(input) :
                  ColLen(LastCol(input, k)) = ColLen(LastCol(input, l))
      IN /\ (res.status = "ok") <=> ok
         /\ res.status = "ok" =>
              /\ PairSet(res.table) = {<<k, LastCol(input, k)>> : k \in InKeys(input)}
              /\ NumRows(res) = IF input = <<>> THEN 0
                                ELSE ColLen(LastCol(input, input[1][1]))
C7_Wit ==
    /\ via = "iter" /\ res.status = "ok"
    /\ \E i, j \in 1..Len(input) :
         /\ i < j /\ input[i][1] = input[j][1]
         /\ ColLen(input[i][2]) # ColLen(input[j][2])

\* C8: every constructed table has num_rows 0 when it has no columns, every
\* column of length num_rows otherwise, and is_empty iff no columns.
C8_Thm ==
    res.status = "ok" =>
      /\ IsEmpty(res) => NumRows(res) = 0
      /\ ~IsEmpty(res) => \A i \in 1..Len(res.table) : ColLen(res.table[i][2]) = NumRows(res)
      /\ IsEmpty(res) <=> NumColumns(res) = 0
C8_Wit == via = "iter" /\ res.status = "ok" /\ NumColumns(res) = 2 /\ NumRows(res) = 1

\* C9: a duplicated identifier keeps the slot of its first occurrence.
C9_Thm ==
    (via = "iter" /\ res.status = "ok") =>
      /\ KeySet(res.table) = InKeys(input)
      /\ \A i, j \in 1..Len(res.table) :
           i < j => FirstIdx(input, res.table[i][1]) < FirstIdx(input, res.table[j][1])
C9_Wit ==
    /\ via = "iter" /\ res.status = "ok" /\ Len(input) = 3
    /\ input[1][1] = input[3][1] /\ input[2][1] # input[1][1]

\* C4: two constructed tables are equal iff they hold the same
\* (identifier, column) pairs with the identifiers in the same order.
C4_Thm ==
    cmp.done =>
      (cmp.e12 <=> /\ PairSet(t1.table) = PairSet(t2.table)
                   /\ Keys(t1.table) = Keys(t2.table))
C4_Wit ==
    /\ cmp.done /\ ~cmp.e12
    /\ PairSet(t1.table) = PairSet(t2.table)
    /\ Len(t1.table) = 2
    /\ t1.table[1][2] = t1.table[2][2]

\* C10: equal tables agree on num_rows, num_columns, is_empty and
\* column_names; equality is reflexive and symmetric.
C10_Thm ==
    cmp.done =>
      /\ cmp.e12 => /\ NumRows(t1) = NumRows(t2)
                    /\ NumColumns(t1) = NumColumns(t2)
                    /\ IsEmpty(t1) = IsEmpty(t2)
                    /\ ColumnNames(t1) = ColumnNames(t2)
      /\ cmp.e11
      /\ cmp.e12 = cmp.e21
C10_Wit == cmp.done /\ cmp.e12 /\ NumColumns(t1) = 2 /\ NumRows(t1) = 1
====
